---- MODULE Spec2Model ----
(***************************************************************************)
(* Model of the sac Brainfuck interpreter (src/src/interpreter.rs driven   *)
(* by src/src/main.rs): Lexer, load_program_from_file (run-length          *)
(* collapsing compiler), precompute_jumps (loop resolver) and interpret    *)
(* (executor).                                                             *)
(*                                                                         *)
(* Representation choices                                                  *)
(*  - characters are one-character strings; content is Vec<char>.          *)
(*  - addresses are 0-based as in the source; TLA+ sequences are 1-based,  *)
(*    so program[a + 1] is the instruction at address a.                   *)
(*  - Option<u8> is a sequence: None is <<>>, Some(n) is <<n>>.            *)
(*  - ram, the zero-initialised [u8; RAM_SIZE], is kept sparsely: a        *)
(*    function whose domain is the set of addresses holding a non-zero     *)
(*    byte (RamGet reads 0 elsewhere).                                     *)
(*  - a usize u is kept as the representative r of its residue class       *)
(*    modulo 2^64 with the smallest magnitude: r = u when u is small and   *)
(*    r = u - 2^64 when u is close to 2^64.  r < 0 therefore denotes a     *)
(*    value far above RAM_SIZE.  Every step changes a usize by at most     *)
(*    255, so the representative never leaves a small window.              *)
(*  - overflow_checks is the build setting of rustc (on in the dev         *)
(*    profile, off in the release profile): with it an overflowing +=, -=  *)
(*    panics, without it the result wraps.  It is chosen once per run.     *)
(*  - stdout is the byte stream written so far; stdin is the whole input   *)
(*    byte stream and stdin_read the number of bytes consumed from it.     *)
(*  - tokens is a history variable: the results of the calls of            *)
(*    Lexer::next so far, in order.                                        *)
(***************************************************************************)
EXTENDS Integers, Sequences, FiniteSets, TLC

VARIABLES
    content, position_in_code,              \* Lexer
    tokens,                                 \* history of Lexer::next results
    c, s, streak,                           \* locals of load_program_from_file
    program, jump_map,                      \* Interpreter
    stack, local_instruction_pointer,       \* locals of precompute_jumps
    memory_pointer, instruction_pointer, ram,
    stdin, stdin_read, stdout,
    pc, fault,
    overflow_checks

lexer_vars   == <<content, position_in_code, tokens>>
load_vars    == <<c, s, streak>>
resolve_vars == <<stack, local_instruction_pointer, jump_map>>
exec_vars    == <<memory_pointer, instruction_pointer, ram, stdin_read, stdout>>
env_vars     == <<stdin, overflow_checks>>

vars == <<content, position_in_code, tokens, c, s, streak, program, jump_map,
          stack, local_instruction_pointer, memory_pointer, instruction_pointer,
          ram, stdin, stdin_read, stdout, pc, fault, overflow_checks>>

----------------------------------------------------------------------------
(* Program constants *)

RAM_SIZE == 100000

U8_MODULUS == 256

EOF_CHAR == "@"

ValidInstructions == {">", "<", "+", "-", ".", ",", "[", "]"}

RunChars == {">", "<", "+", "-"}

\* Variant of SingleChars that takes the end sentinel for an instruction.
SingleChars_WithSentinel == {".", ",", "[", "]", "@"}

SingleChars == {".", ",", "[", "]"}

----------------------------------------------------------------------------
(* Bounds of the model *)

\* Every source text over Alphabet of at most MaxLen characters is an input.
MaxLen == 3

\* The longest run of one run-length-eligible character among the inputs.
MaxRun == 257

\* Calls of Lexer::next made after the source is exhausted (SpecLexer).
MaxExtraCalls == 3

\* Bytes on stdout beyond which the model stops following a run (a program
\* such as `+[.]` prints for ever).
MaxOutput == 4

Alphabet == ValidInstructions \cup {"x"}

\* The characters of the model: what a char of the source, or a result of
\* Lexer::next, can be.
Chars == Alphabet \cup {EOF_CHAR}

Repeat(ch, n) == [i \in 1..n |-> ch]

ShortSources == UNION {[1..n -> Alphabet] : n \in 0..MaxLen}

LongRunSources ==
    {Repeat(ch, n) \o suf : ch \in RunChars, n \in (MaxRun - 3)..MaxRun,
                            suf \in {<<>>, <<".">>, <<"]">>}}

Scenario16 ==
    <<"+","+","+","+","[",">","+","+","+","+","<","-","]",">",".">>

ScenarioWrap == <<"+","+","+",".","-","-","-","-","-","-","-",".">>

ScenarioSources ==
    { Scenario16, ScenarioWrap,
      <<"+","@","+",".">>,
      <<"[","[","]","]">>,
      <<"+","[","[","-","]","]",".">>,
      <<"+","+","[","-",">","+","<","]">>,
      <<",","[",".",",","]">>,
      <<",","[",".","[","-","]","]">> }

Sources == ShortSources \cup LongRunSources \cup ScenarioSources

Stdins == {<<>>, <<65, 200>>}

----------------------------------------------------------------------------
(* Lexer *)

\* Variant of is_valid_brainfuck_instruction whose string of valid characters
\* holds one character too many.
is_valid_brainfuck_instruction_Extra(inst) == inst \in ValidInstructions \cup {"x"}

is_valid_brainfuck_instruction(inst) == inst \in ValidInstructions

\* The skipping while loop of Lexer::next: the cursor after it.
RECURSIVE SkipInvalid(_, _)
SkipInvalid(cont, pos) ==
    IF pos < Len(cont) /\ ~is_valid_brainfuck_instruction(cont[pos + 1])
    THEN SkipInvalid(cont, pos + 1)
    ELSE pos

\* The character Lexer::next returns from cursor pos.
LexerNextChar(cont, pos) ==
    LET p == SkipInvalid(cont, pos)
    IN  IF p >= Len(cont) THEN EOF_CHAR ELSE cont[p + 1]

\* Variant of LexerNextPos that forgets to step over the character returned.
LexerNextPos_NoAdvance(cont, pos) == SkipInvalid(cont, pos)

\* The cursor Lexer::next leaves behind.
LexerNextPos(cont, pos) ==
    LET p == SkipInvalid(cont, pos)
    IN  IF p >= Len(cont) THEN p ELSE p + 1

\* One call of self.lexer.next() whose result is r.
LexerNext(r) ==
    /\ r = LexerNextChar(content, position_in_code)
    /\ position_in_code' = LexerNextPos(content, position_in_code)
    /\ tokens' = Append(tokens, r)
    /\ UNCHANGED content

----------------------------------------------------------------------------
(* Integer arithmetic of the build *)

U8AddOverflows(a, b) == a + b >= U8_MODULUS

U8SubOverflows(a, b) == a < b

U8WrappingAdd(a, b) == (a + b) % U8_MODULUS

U8WrappingSub(a, b) == (a - b) % U8_MODULUS

\* usize, on representatives (see the head of the module).
UsizeAddOverflows(r, n) == r < 0 /\ r + n >= 0

UsizeSubOverflows(r, n) == r >= 0 /\ r - n < 0

UsizeWrappingAdd(r, n) == r + n

UsizeWrappingSub(r, n) == r - n

\* self.ram[i] is within the array.
InBounds(r) == 0 <= r /\ r < RAM_SIZE

RamGet(mem, a) == IF a \in DOMAIN mem THEN mem[a] ELSE 0

RamSet(mem, a, v) ==
    IF v = 0
    THEN [x \in DOMAIN mem \ {a} |-> mem[x]]
    ELSE [x \in DOMAIN mem \cup {a} |-> IF x = a THEN v ELSE mem[x]]

EmptyMap == [x \in {} |-> 0]

----------------------------------------------------------------------------
(* Interpreter::new and the environment of the run *)

Init ==
    /\ content \in Sources
    /\ position_in_code = 0
    /\ tokens = <<>>
    /\ c = "" /\ s = "" /\ streak = 0
    /\ program = <<>>
    /\ jump_map = EmptyMap
    /\ stack = <<>>
    /\ local_instruction_pointer = 0
    /\ memory_pointer = 0
    /\ instruction_pointer = 0
    /\ ram = EmptyMap
    /\ stdin \in Stdins
    /\ stdin_read = 0
    /\ stdout = <<>>
    /\ pc = "load"
    /\ fault = "none"
    /\ overflow_checks \in BOOLEAN

\* A panic: the process aborts where it stands.
Panic(msg) ==
    /\ pc' = "panic"
    /\ fault' = msg

----------------------------------------------------------------------------
(* Interpreter::load_program_from_file *)

RunKind(ch) ==
    IF ch = ">" THEN "IncrementPointer"
    ELSE IF ch = "<" THEN "DecrementPointer"
    ELSE IF ch = "+" THEN "IncrementByte"
    ELSE "DecrementByte"

SingleKind(ch) ==
    IF ch = "." THEN "PrintByteAsChar"
    ELSE IF ch = "," THEN "ReadInputToByte"
    ELSE IF ch = "[" THEN "JumpIfZero"
    ELSE "JumpIfNotZero"

RunKinds == {"IncrementPointer", "DecrementPointer", "IncrementByte", "DecrementByte"}

IRInstruction(k, op) == [kind |-> k, operand |-> op]

\* let mut c = self.lexer.next();
LoadFirst ==
    /\ pc = "load"
    /\ \E r \in Chars : LexerNext(r) /\ c' = r
    /\ pc' = "compile"
    /\ UNCHANGED <<s, streak, program, resolve_vars, exec_vars, env_vars, fault>>

\* match arm '>' | '<' | '+' | '-' up to the first inner call of next.
CompileRunStart ==
    /\ pc = "compile"
    /\ c \in RunChars
    /\ streak' = 1
    /\ \E r \in Chars : LexerNext(r) /\ s' = r
    /\ pc' = "run"
    /\ UNCHANGED <<c, program, resolve_vars, exec_vars, env_vars, fault>>

\* One iteration of while c == s { streak += 1; s = self.lexer.next(); }
CompileRunExtend ==
    /\ pc = "run"
    /\ c = s
    /\ IF overflow_checks /\ U8AddOverflows(streak, 1)
       THEN /\ Panic("streak_overflow")
            /\ UNCHANGED <<lexer_vars, s, streak>>
       ELSE /\ streak' = U8WrappingAdd(streak, 1)
            /\ \E r \in Chars : LexerNext(r) /\ s' = r
            /\ UNCHANGED <<pc, fault>>
    /\ UNCHANGED <<c, program, resolve_vars, exec_vars, env_vars>>

\* Variant of CompileRunEmit that fetches a fresh symbol after the run instead
\* of resuming from the one that ended it: that symbol is lost.
CompileRunEmit_DropsBreaker ==
    /\ pc = "run"
    /\ c # s
    /\ program' = Append(program, IRInstruction(RunKind(c), <<streak>>))
    /\ \E r \in Chars : LexerNext(r) /\ c' = r
    /\ pc' = "compile"
    /\ UNCHANGED <<s, streak, resolve_vars, exec_vars, env_vars, fault>>

\* The run ended: emit the instruction, resume from the symbol that ended it.
CompileRunEmit ==
    /\ pc = "run"
    /\ c # s
    /\ program' = Append(program, IRInstruction(RunKind(c), <<streak>>))
    /\ c' = s
    /\ pc' = "compile"
    /\ UNCHANGED <<lexer_vars, s, streak, resolve_vars, exec_vars, env_vars, fault>>

\* match arm '.' | ',' | '[' | ']'
CompileSingle ==
    /\ pc = "compile"
    /\ c \in SingleChars
    /\ program' = Append(program, IRInstruction(SingleKind(c), <<>>))
    /\ \E r \in Chars : LexerNext(r) /\ c' = r
    /\ UNCHANGED <<s, streak, resolve_vars, exec_vars, env_vars, pc, fault>>

\* c == '@': the loop ends, main calls interpret, which enters precompute_jumps.
CompileEnd ==
    /\ pc = "compile"
    /\ c = EOF_CHAR
    /\ stack' = <<>>
    /\ local_instruction_pointer' = 0
    /\ pc' = "resolve"
    /\ UNCHANGED <<lexer_vars, load_vars, program, jump_map, exec_vars, env_vars, fault>>

----------------------------------------------------------------------------
(* Interpreter::precompute_jumps *)

MapInsert(m, k, v) == [x \in DOMAIN m \cup {k} |-> IF x = k THEN v ELSE m[x]]

ResolveInst == program[local_instruction_pointer + 1]

ResolveJumpIfZero ==
    /\ pc = "resolve"
    /\ local_instruction_pointer < Len(program)
    /\ ResolveInst.kind = "JumpIfZero"
    /\ stack' = Append(stack, local_instruction_pointer)
    /\ local_instruction_pointer' = local_instruction_pointer + 1
    /\ UNCHANGED <<lexer_vars, load_vars, program, jump_map, exec_vars, env_vars, pc, fault>>

\* Variant of ResolveJumpIfNotZero that tolerates the empty stack: the unmatched
\* closing bracket is passed over instead of panicking.
ResolveJumpIfNotZero_IgnoresEmptyStack ==
    /\ pc = "resolve"
    /\ local_instruction_pointer < Len(program)
    /\ ResolveInst.kind = "JumpIfNotZero"
    /\ IF stack = <<>>
       THEN UNCHANGED <<stack, jump_map>>
       ELSE LET target == stack[Len(stack)]
            IN  /\ stack' = SubSeq(stack, 1, Len(stack) - 1)
                /\ jump_map' = MapInsert(MapInsert(jump_map, local_instruction_pointer, target),
                                         target, local_instruction_pointer)
    /\ local_instruction_pointer' = local_instruction_pointer + 1
    /\ UNCHANGED <<lexer_vars, load_vars, program, exec_vars, env_vars, pc, fault>>

\* Variant of ResolveJumpIfNotZero that pairs the closing bracket with the
\* oldest open bracket (the bottom of the stack) instead of the newest.
ResolveJumpIfNotZero_PopsBottom ==
    /\ pc = "resolve"
    /\ local_instruction_pointer < Len(program)
    /\ ResolveInst.kind = "JumpIfNotZero"
    /\ IF stack = <<>>
       THEN /\ Panic("unmatched_close")
            /\ UNCHANGED resolve_vars
       ELSE LET target == stack[1]
            IN  /\ stack' = SubSeq(stack, 2, Len(stack))
                /\ jump_map' = MapInsert(MapInsert(jump_map, local_instruction_pointer, target),
                                         target, local_instruction_pointer)
                /\ local_instruction_pointer' = local_instruction_pointer + 1
                /\ UNCHANGED <<pc, fault>>
    /\ UNCHANGED <<lexer_vars, load_vars, program, exec_vars, env_vars>>

\* stack.pop().unwrap() panics on the empty stack.
ResolveJumpIfNotZero ==
    /\ pc = "resolve"
    /\ local_instruction_pointer < Len(program)
    /\ ResolveInst.kind = "JumpIfNotZero"
    /\ IF stack = <<>>
       THEN /\ Panic("unmatched_close")
            /\ UNCHANGED resolve_vars
       ELSE LET target == stack[Len(stack)]
            IN  /\ stack' = SubSeq(stack, 1, Len(stack) - 1)
                /\ jump_map' = MapInsert(MapInsert(jump_map, local_instruction_pointer, target),
                                         target, local_instruction_pointer)
                /\ local_instruction_pointer' = local_instruction_pointer + 1
                /\ UNCHANGED <<pc, fault>>
    /\ UNCHANGED <<lexer_vars, load_vars, program, exec_vars, env_vars>>

ResolveOther ==
    /\ pc = "resolve"
    /\ local_instruction_pointer < Len(program)
    /\ ResolveInst.kind \notin {"JumpIfZero", "JumpIfNotZero"}
    /\ local_instruction_pointer' = local_instruction_pointer + 1
    /\ UNCHANGED <<lexer_vars, load_vars, program, stack, jump_map, exec_vars, env_vars, pc, fault>>

\* Variant of ResolveEnd that leaves the loop one instruction early.
ResolveEnd_Early ==
    /\ pc = "resolve"
    /\ local_instruction_pointer >= Len(program) - 1
    /\ pc' = "exec"
    /\ UNCHANGED <<lexer_vars, load_vars, program, resolve_vars, exec_vars, env_vars, fault>>

\* The pass is over; interpret goes on to its execution loop, whatever the stack holds.
ResolveEnd ==
    /\ pc = "resolve"
    /\ local_instruction_pointer >= Len(program)
    /\ pc' = "exec"
    /\ UNCHANGED <<lexer_vars, load_vars, program, resolve_vars, exec_vars, env_vars, fault>>

----------------------------------------------------------------------------
(* Interpreter::interpret, the execution loop *)

ExecInst == program[instruction_pointer + 1]

Fetch(k) ==
    /\ pc = "exec"
    /\ instruction_pointer < Len(program)
    /\ ExecInst.kind = k

\* What print!("{byte_as_char}") writes for (byte as char): the UTF-8 encoding
\* of the code point U+0000..U+00FF.
Utf8OfByte(b) ==
    IF b < 128 THEN <<b>> ELSE <<192 + (b \div 64), 128 + (b % 64)>>

\* self.memory_pointer += inst.operand.unwrap() as usize
ExecIncrementPointer ==
    /\ Fetch("IncrementPointer")
    /\ LET n == ExecInst.operand[1]
       IN  IF overflow_checks /\ UsizeAddOverflows(memory_pointer, n)
           THEN /\ Panic("add_overflow")
                /\ UNCHANGED <<memory_pointer, instruction_pointer>>
           ELSE /\ memory_pointer' = UsizeWrappingAdd(memory_pointer, n)
                /\ instruction_pointer' = instruction_pointer + 1
                /\ UNCHANGED <<pc, fault>>
    /\ UNCHANGED <<lexer_vars, load_vars, program, resolve_vars, ram, stdin_read, stdout, env_vars>>

\* self.memory_pointer -= inst.operand.unwrap() as usize
ExecDecrementPointer ==
    /\ Fetch("DecrementPointer")
    /\ LET n == ExecInst.operand[1]
       IN  IF overflow_checks /\ UsizeSubOverflows(memory_pointer, n)
           THEN /\ Panic("sub_overflow")
                /\ UNCHANGED <<memory_pointer, instruction_pointer>>
           ELSE /\ memory_pointer' = UsizeWrappingSub(memory_pointer, n)
                /\ instruction_pointer' = instruction_pointer + 1
                /\ UNCHANGED <<pc, fault>>
    /\ UNCHANGED <<lexer_vars, load_vars, program, resolve_vars, ram, stdin_read, stdout, env_vars>>

\* Variant of ExecIncrementByte that adds to the cell after the current one.
ExecIncrementByte_AtNextCell ==
    /\ Fetch("IncrementByte")
    /\ LET n == ExecInst.operand[1]
           v == RamGet(ram, memory_pointer + 1)
       IN  IF ~InBounds(memory_pointer + 1)
           THEN /\ Panic("index_out_of_bounds")
                /\ UNCHANGED <<ram, instruction_pointer>>
           ELSE IF overflow_checks /\ U8AddOverflows(v, n)
           THEN /\ Panic("add_overflow")
                /\ UNCHANGED <<ram, instruction_pointer>>
           ELSE /\ ram' = RamSet(ram, memory_pointer + 1, U8WrappingAdd(v, n))
                /\ instruction_pointer' = instruction_pointer + 1
                /\ UNCHANGED <<pc, fault>>
    /\ UNCHANGED <<lexer_vars, load_vars, program, resolve_vars, memory_pointer, stdin_read, stdout, env_vars>>

\* self.ram[self.memory_pointer] += inst.operand.unwrap()
ExecIncrementByte ==
    /\ Fetch("IncrementByte")
    /\ LET n == ExecInst.operand[1]
           v == RamGet(ram, memory_pointer)
       IN  IF ~InBounds(memory_pointer)
           THEN /\ Panic("index_out_of_bounds")
                /\ UNCHANGED <<ram, instruction_pointer>>
           ELSE IF overflow_checks /\ U8AddOverflows(v, n)
           THEN /\ Panic("add_overflow")
                /\ UNCHANGED <<ram, instruction_pointer>>
           ELSE /\ ram' = RamSet(ram, memory_pointer, U8WrappingAdd(v, n))
                /\ instruction_pointer' = instruction_pointer + 1
                /\ UNCHANGED <<pc, fault>>
    /\ UNCHANGED <<lexer_vars, load_vars, program, resolve_vars, memory_pointer, stdin_read, stdout, env_vars>>

\* self.ram[self.memory_pointer] -= inst.operand.unwrap()
ExecDecrementByte ==
    /\ Fetch("DecrementByte")
    /\ LET n == ExecInst.operand[1]
           v == RamGet(ram, memory_pointer)
       IN  IF ~InBounds(memory_pointer)
           THEN /\ Panic("index_out_of_bounds")
                /\ UNCHANGED <<ram, instruction_pointer>>
           ELSE IF overflow_checks /\ U8SubOverflows(v, n)
           THEN /\ Panic("sub_overflow")
                /\ UNCHANGED <<ram, instruction_pointer>>
           ELSE /\ ram' = RamSet(ram, memory_pointer, U8WrappingSub(v, n))
                /\ instruction_pointer' = instruction_pointer + 1
                /\ UNCHANGED <<pc, fault>>
    /\ UNCHANGED <<lexer_vars, load_vars, program, resolve_vars, memory_pointer, stdin_read, stdout, env_vars>>

\* print!("{byte_as_char}"); io::stdout().flush().unwrap();
ExecPrintByteAsChar ==
    /\ Fetch("PrintByteAsChar")
    /\ Len(stdout) < MaxOutput
    /\ IF ~InBounds(memory_pointer)
       THEN /\ Panic("index_out_of_bounds")
            /\ UNCHANGED <<stdout, instruction_pointer>>
       ELSE /\ stdout' = stdout \o Utf8OfByte(RamGet(ram, memory_pointer))
            /\ instruction_pointer' = instruction_pointer + 1
            /\ UNCHANGED <<pc, fault>>
    /\ UNCHANGED <<lexer_vars, load_vars, program, resolve_vars, memory_pointer, ram, stdin_read, env_vars>>

\* Variant of ExecReadInputToByte that reads without consuming: the stream
\* position is left where it was.
ExecReadInputToByte_NoConsume ==
    /\ Fetch("ReadInputToByte")
    /\ IF stdin_read >= Len(stdin)
       THEN /\ Panic("stdin_eof")
            /\ UNCHANGED <<stdin_read, ram, instruction_pointer>>
       ELSE /\ UNCHANGED stdin_read
            /\ IF ~InBounds(memory_pointer)
               THEN /\ Panic("index_out_of_bounds")
                    /\ UNCHANGED <<ram, instruction_pointer>>
               ELSE /\ ram' = RamSet(ram, memory_pointer, stdin[stdin_read + 1])
                    /\ instruction_pointer' = instruction_pointer + 1
                    /\ UNCHANGED <<pc, fault>>
    /\ UNCHANGED <<lexer_vars, load_vars, program, resolve_vars, memory_pointer, stdout, env_vars>>

\* Variant of ExecReadInputToByte with the other end-of-input policy: it
\* stores 0 and continues.
ExecReadInputToByte_ZeroOnEof ==
    /\ Fetch("ReadInputToByte")
    /\ IF ~InBounds(memory_pointer)
       THEN /\ Panic("index_out_of_bounds")
            /\ UNCHANGED <<stdin_read, ram, instruction_pointer>>
       ELSE /\ stdin_read' = IF stdin_read >= Len(stdin) THEN stdin_read ELSE stdin_read + 1
            /\ ram' = RamSet(ram, memory_pointer,
                             IF stdin_read >= Len(stdin) THEN 0 ELSE stdin[stdin_read + 1])
            /\ instruction_pointer' = instruction_pointer + 1
            /\ UNCHANGED <<pc, fault>>
    /\ UNCHANGED <<lexer_vars, load_vars, program, resolve_vars, memory_pointer, stdout, env_vars>>

\* io::stdin().read_exact(&mut input).expect(..); self.ram[..] = input[0];
ExecReadInputToByte ==
    /\ Fetch("ReadInputToByte")
    /\ IF stdin_read >= Len(stdin)
       THEN /\ Panic("stdin_eof")
            /\ UNCHANGED <<stdin_read, ram, instruction_pointer>>
       ELSE /\ stdin_read' = stdin_read + 1
            /\ IF ~InBounds(memory_pointer)
               THEN /\ Panic("index_out_of_bounds")
                    /\ UNCHANGED <<ram, instruction_pointer>>
               ELSE /\ ram' = RamSet(ram, memory_pointer, stdin[stdin_read + 1])
                    /\ instruction_pointer' = instruction_pointer + 1
                    /\ UNCHANGED <<pc, fault>>
    /\ UNCHANGED <<lexer_vars, load_vars, program, resolve_vars, memory_pointer, stdout, env_vars>>

\* Variant of ExecJump that finds the target by walking the hash map, whose
\* iteration order is arbitrary: a taken jump lands after any bracket of the table.
ExecJump_AnyEntry(cond) ==
    /\ IF ~InBounds(memory_pointer)
       THEN /\ Panic("index_out_of_bounds")
            /\ UNCHANGED instruction_pointer
       ELSE IF cond
       THEN IF instruction_pointer \notin DOMAIN jump_map
            THEN /\ Panic("jump_miss")
                 /\ UNCHANGED instruction_pointer
            ELSE /\ \E a \in DOMAIN jump_map : instruction_pointer' = jump_map[a] + 1
                 /\ UNCHANGED <<pc, fault>>
       ELSE /\ instruction_pointer' = instruction_pointer + 1
            /\ UNCHANGED <<pc, fault>>
    /\ UNCHANGED <<lexer_vars, load_vars, program, resolve_vars, memory_pointer, ram, stdin_read, stdout, env_vars>>

\* Variant of ExecJump that leaves the instruction pointer on the matching
\* bracket after a taken jump (the closing += 1 is skipped).
ExecJump_LandsOnBracket(cond) ==
    /\ IF ~InBounds(memory_pointer)
       THEN /\ Panic("index_out_of_bounds")
            /\ UNCHANGED instruction_pointer
       ELSE IF cond
       THEN IF instruction_pointer \notin DOMAIN jump_map
            THEN /\ Panic("jump_miss")
                 /\ UNCHANGED instruction_pointer
            ELSE /\ instruction_pointer' = jump_map[instruction_pointer]
                 /\ UNCHANGED <<pc, fault>>
       ELSE /\ instruction_pointer' = instruction_pointer + 1
            /\ UNCHANGED <<pc, fault>>
    /\ UNCHANGED <<lexer_vars, load_vars, program, resolve_vars, memory_pointer, ram, stdin_read, stdout, env_vars>>

\* A bracket whose condition cond holds jumps through jump_map; then
\* self.instruction_pointer += 1 in either case.
ExecJump(cond) ==
    /\ IF ~InBounds(memory_pointer)
       THEN /\ Panic("index_out_of_bounds")
            /\ UNCHANGED instruction_pointer
       ELSE IF cond
       THEN IF instruction_pointer \notin DOMAIN jump_map
            THEN /\ Panic("jump_miss")
                 /\ UNCHANGED instruction_pointer
            ELSE /\ instruction_pointer' = jump_map[instruction_pointer] + 1
                 /\ UNCHANGED <<pc, fault>>
       ELSE /\ instruction_pointer' = instruction_pointer + 1
            /\ UNCHANGED <<pc, fault>>
    /\ UNCHANGED <<lexer_vars, load_vars, program, resolve_vars, memory_pointer, ram, stdin_read, stdout, env_vars>>

ExecJumpIfZero ==
    /\ Fetch("JumpIfZero")
    /\ ExecJump(RamGet(ram, memory_pointer) = 0)

\* Variant of ExecJumpIfNotZero with the test inverted: it jumps back on zero.
ExecJumpIfNotZero_TestInverted ==
    /\ Fetch("JumpIfNotZero")
    /\ ExecJump(RamGet(ram, memory_pointer) = 0)

ExecJumpIfNotZero ==
    /\ Fetch("JumpIfNotZero")
    /\ ExecJump(RamGet(ram, memory_pointer) # 0)

\* instruction_pointer reached program.len(): interpret returns, main ends.
ExecEnd ==
    /\ pc = "exec"
    /\ instruction_pointer >= Len(program)
    /\ pc' = "done"
    /\ UNCHANGED <<lexer_vars, load_vars, program, resolve_vars, exec_vars, env_vars, fault>>

----------------------------------------------------------------------------
(* The run of main: load_program_from_file, then interpret *)

Next ==
    \/ LoadFirst
    \/ CompileRunStart
    \/ CompileRunExtend
    \/ CompileRunEmit
    \/ CompileSingle
    \/ CompileEnd
    \/ ResolveJumpIfZero
    \/ ResolveJumpIfNotZero
    \/ ResolveOther
    \/ ResolveEnd
    \/ ExecIncrementPointer
    \/ ExecDecrementPointer
    \/ ExecIncrementByte
    \/ ExecDecrementByte
    \/ ExecPrintByteAsChar
    \/ ExecReadInputToByte
    \/ ExecJumpIfZero
    \/ ExecJumpIfNotZero
    \/ ExecEnd

Spec == Init /\ [][Next]_vars

\* The program is a single thread that runs until it returns or panics.
FairSpec == Spec /\ WF_vars(Next)

(* The lexer alone: Lexer::next called again and again on a filled lexer, *)
(* also after the source is exhausted.                                     *)
InitLexer ==
    /\ Init
    /\ stdin = <<>>
    /\ overflow_checks = FALSE

LexerCall ==
    /\ Len(tokens) < Len(content) + MaxExtraCalls
    /\ \E r \in Chars : LexerNext(r)
    /\ UNCHANGED <<load_vars, program, resolve_vars, exec_vars, env_vars, pc, fault>>

NextLexer == LexerCall

SpecLexer == InitLexer /\ [][NextLexer]_vars

----------------------------------------------------------------------------
(* Auxiliary notions used to state the properties *)

\* The recognised instruction characters of a source text, in order.
InstructionChars(cont) == SelectSeq(cont, LAMBDA ch : ch \in ValidInstructions)

\* Bracket depth after seq[i..], starting at depth d; -1 as soon as a closing
\* symbol meets depth 0 (a closing bracket with no unmatched opening one before).
RECURSIVE BracketScan(_, _, _, _, _)
BracketScan(seq, open, close, i, d) ==
    IF i > Len(seq) THEN d
    ELSE IF seq[i] = open THEN BracketScan(seq, open, close, i + 1, d + 1)
    ELSE IF seq[i] = close
         THEN IF d = 0 THEN -1 ELSE BracketScan(seq, open, close, i + 1, d - 1)
    ELSE BracketScan(seq, open, close, i + 1, d)

\* Number of opening symbols of seq[i..] left without a closing one.
RECURSIVE OpenLeft(_, _, _, _, _)
OpenLeft(seq, open, close, i, d) ==
    IF i > Len(seq) THEN d
    ELSE IF seq[i] = open THEN OpenLeft(seq, open, close, i + 1, d + 1)
    ELSE IF seq[i] = close
         THEN OpenLeft(seq, open, close, i + 1, IF d = 0 THEN 0 ELSE d - 1)
    ELSE OpenLeft(seq, open, close, i + 1, d)

\* The brackets of a source text, in order (the scans above then recurse over
\* the brackets only, however long the text is).
Brackets(cont) == SelectSeq(cont, LAMBDA ch : ch \in {"[", "]"})

HasUnmatchedClose(cont) == BracketScan(Brackets(cont), "[", "]", 1, 0) = -1

HasUnmatchedOpen(cont) == OpenLeft(Brackets(cont), "[", "]", 1, 0) > 0

Kinds(prog) == [i \in 1..Len(prog) |-> prog[i].kind]

JumpKinds(prog) ==
    SelectSeq(Kinds(prog), LAMBDA k : k \in {"JumpIfZero", "JumpIfNotZero"})

Balanced(prog) == BracketScan(JumpKinds(prog), "JumpIfZero", "JumpIfNotZero", 1, 0) = 0

\* Faults raised while loading or resolving, before the execution loop.
CompileTimeFaults == {"streak_overflow", "unmatched_close"}

\* precompute_jumps has returned.
Resolved == pc \in {"exec", "done"} \/ (pc = "panic" /\ fault \notin CompileTimeFaults)

\* Nothing of the execution loop has happened.
NothingExecuted ==
    /\ ram = EmptyMap
    /\ stdout = <<>>
    /\ stdin_read = 0
    /\ memory_pointer = 0
    /\ instruction_pointer = 0

----------------------------------------------------------------------------
(* Properties *)

\* C1: cell arithmetic wraps modulo 256 and never faults: an IncrementByte(n)
\* or DecrementByte(n), 1 <= n <= 255, executed on a cell of the tape holding v
\* leaves it at (v + n) mod 256, resp. (v - n) mod 256, and execution goes on
\* with the next instruction.
C1_CellArithmeticWraps ==
    [][ ( /\ pc = "exec"
          /\ instruction_pointer < Len(program)
          /\ ExecInst.kind \in {"IncrementByte", "DecrementByte"}
          /\ InBounds(memory_pointer)
          /\ ExecInst.operand[1] \in 1..255 )
        => LET n == ExecInst.operand[1]
               v == RamGet(ram, memory_pointer)
               w == IF ExecInst.kind = "IncrementByte"
                    THEN (v + n) % 256 ELSE (v - n) % 256
           IN  /\ pc' = "exec"
               /\ instruction_pointer' = instruction_pointer + 1
               /\ RamGet(ram', memory_pointer) = w ]_vars

\* C2: the memory pointer stays inside the tape: in every state that has not
\* faulted, 0 <= memory_pointer < RAM_SIZE (a pointer instruction that would
\* leave the tape faults there and then).
C2_PointerInsideTape == pc # "panic" => InBounds(memory_pointer)

\* C3: a program with a LoopOpen that has no matching LoopClose is rejected
\* before any instruction executes: the execution loop is never entered, and
\* no tape cell, output byte or input byte is touched.
C3_UnmatchedOpenRejected ==
    HasUnmatchedOpen(content) =>
        /\ pc \notin {"exec", "done"}
        /\ pc = "panic" => fault \in CompileTimeFaults
        /\ NothingExecuted


\* C4: a program with a LoopClose that no unmatched LoopOpen precedes is
\* rejected before any instruction executes: the execution loop is never
\* entered, the only faults are those of loading and resolving, and no tape
\* cell, output byte or input byte is touched, whatever precedes the bracket.
C4_UnmatchedCloseRejected ==
    HasUnmatchedClose(content) =>
        /\ pc \notin {"exec", "done"}
        /\ pc = "panic" => fault \in CompileTimeFaults
        /\ NothingExecuted

\* The resolver has popped the empty stack on a program whose unmatched `]`
\* comes after instructions with observable effects.
C4_Witness ==
    /\ pc = "panic"
    /\ fault = "unmatched_close"
    /\ stack = <<>>
    /\ ResolveInst.kind = "JumpIfNotZero"
    /\ \E i \in 1..local_instruction_pointer : program[i].kind = "PrintByteAsChar"
    /\ \E i \in 1..local_instruction_pointer : program[i].kind = "IncrementByte"

\* The addresses of the brackets of a program.
OpenAddrs(prog) == {a \in 0..(Len(prog) - 1) : prog[a + 1].kind = "JumpIfZero"}

CloseAddrs(prog) == {a \in 0..(Len(prog) - 1) : prog[a + 1].kind = "JumpIfNotZero"}

\* C5: after the resolver pass on a program with balanced brackets the jump
\* table has an entry exactly for the bracket addresses; every LoopOpen a maps
\* to a LoopClose b > a that maps back to a; what lies between a and b is
\* itself balanced, and no two pairs cross.
C5_JumpTableShape ==
    (Resolved /\ Balanced(program)) =>
        /\ DOMAIN jump_map = OpenAddrs(program) \cup CloseAddrs(program)
        /\ \A a \in OpenAddrs(program) :
              /\ jump_map[a] \in CloseAddrs(program)
              /\ jump_map[a] > a
              /\ jump_map[jump_map[a]] = a
              /\ Balanced(SubSeq(program, a + 2, jump_map[a]))
        /\ \A b \in CloseAddrs(program) :
              /\ jump_map[b] \in OpenAddrs(program)
              /\ jump_map[b] < b
              /\ jump_map[jump_map[b]] = b
        /\ \A a1, a2 \in OpenAddrs(program) :
              (a1 < a2 /\ a2 < jump_map[a1]) => jump_map[a2] < jump_map[a1]

\* A resolved balanced program with a loop nested in another one.
C5_Witness ==
    /\ Resolved
    /\ Balanced(program)
    /\ \E a1, a2 \in OpenAddrs(program) :
          /\ a1 < a2
          /\ a1 \in DOMAIN jump_map /\ a2 \in DOMAIN jump_map
          /\ jump_map[a2] < jump_map[a1]


\* The uncollapsed form: one instruction of count 1 per character, executed
\* by the rules of the execution loop.  A state of this reference run is
\* [mp, ram, ok, inb]: ok is false once an instruction has panicked, inb is
\* false once the pointer has left the tape.
RefInit == [mp |-> 0, ram |-> EmptyMap, ok |-> TRUE, inb |-> TRUE]

RefMove(st, r) == [st EXCEPT !.mp = r, !.inb = st.inb /\ InBounds(r)]

RefStep(st, ch) ==
    IF ~st.ok THEN st
    ELSE IF ch = ">"
    THEN IF overflow_checks /\ UsizeAddOverflows(st.mp, 1)
         THEN [st EXCEPT !.ok = FALSE]
         ELSE RefMove(st, UsizeWrappingAdd(st.mp, 1))
    ELSE IF ch = "<"
    THEN IF overflow_checks /\ UsizeSubOverflows(st.mp, 1)
         THEN [st EXCEPT !.ok = FALSE, !.inb = FALSE]
         ELSE RefMove(st, UsizeWrappingSub(st.mp, 1))
    ELSE IF ~InBounds(st.mp)
    THEN [st EXCEPT !.ok = FALSE]
    ELSE IF ch = "+"
    THEN IF overflow_checks /\ U8AddOverflows(RamGet(st.ram, st.mp), 1)
         THEN [st EXCEPT !.ok = FALSE]
         ELSE [st EXCEPT !.ram = RamSet(st.ram, st.mp, U8WrappingAdd(RamGet(st.ram, st.mp), 1))]
    ELSE IF overflow_checks /\ U8SubOverflows(RamGet(st.ram, st.mp), 1)
         THEN [st EXCEPT !.ok = FALSE]
         ELSE [st EXCEPT !.ram = RamSet(st.ram, st.mp, U8WrappingSub(RamGet(st.ram, st.mp), 1))]

\* The reference run over toks[lo..hi], split in halves to keep the recursion
\* shallow on long runs; a run that has panicked in the first half stays as
\* it is (RefStep does nothing once ok is false).
RECURSIVE RefRun(_, _, _, _)
RefRun(st, toks, lo, hi) ==
    IF lo > hi THEN st
    ELSE IF lo = hi THEN RefStep(st, toks[lo])
    ELSE LET mid  == (lo + hi) \div 2
             left == RefRun(st, toks, lo, mid)
         IN  IF left.ok THEN RefRun(left, toks, mid + 1, hi) ELSE left

OnlyRunChars(cont) == \A i \in 1..Len(cont) : cont[i] \in RunChars \/ cont[i] \notin ValidInstructions

\* C6: run-length collapsing is transparent: for a source of `>`, `<`, `+`,
\* `-` only whose one-instruction-per-character form runs to its end without
\* leaving the tape, the collapsed program ends with the same memory pointer
\* and the same tape.
C6_CollapsingTransparent ==
    (pc = "done" /\ OnlyRunChars(content)) =>
        LET toks == InstructionChars(content)
            ref  == RefRun(RefInit, toks, 1, Len(toks))
        IN  (ref.ok /\ ref.inb) => (memory_pointer = ref.mp /\ ram = ref.ram)

\* C7: every run-length instruction the compiler emits carries a count of at
\* least 1, whatever the length of the source run.
C7_CountAtLeastOne ==
    \A i \in 1..Len(program) :
        program[i].kind \in RunKinds => program[i].operand[1] >= 1

\* C8: the results of the calls of Lexer::next so far are the instruction
\* characters of the source, in order, each once, followed by the sentinel
\* '@' for every call after the last of them, and the cursor never passes the
\* end of the source.
C8_TokenizerContract ==
    LET instr == InstructionChars(content)
    IN  /\ \A i \in 1..Len(tokens) :
              tokens[i] = IF i <= Len(instr) THEN instr[i] ELSE "@"
        /\ position_in_code <= Len(content)
        /\ Len(tokens) > Len(instr) => position_in_code = Len(content)

\* Lexer::next has been called at least twice after the last instruction
\* character of a source that holds instruction characters and others.
C8_Witness ==
    LET instr == InstructionChars(content)
    IN  /\ Len(instr) >= 2
        /\ Len(content) > Len(instr)
        /\ Len(tokens) >= Len(instr) + 2
        /\ tokens[Len(tokens)] = "@"
        /\ tokens[Len(tokens) - 1] = "@"

\* C9: each executed Output instruction appends exactly one byte to the output
\* stream, the value of the current cell, for every cell value 0..255.
C9_OutputOneByte ==
    [][ ( /\ pc = "exec"
          /\ instruction_pointer < Len(program)
          /\ ExecInst.kind = "PrintByteAsChar"
          /\ InBounds(memory_pointer) )
        => stdout' = Append(stdout, RamGet(ram, memory_pointer)) ]_vars

\* C10: `++++[>++++<-]>.` on a fresh tape never faults, writes at most one
\* byte, terminates, and ends with output <<16>>, the memory pointer at 1,
\* cell 0 at 0 and cell 1 at 16.
C10_Scenario16 ==
    /\ [](content = Scenario16 =>
            /\ pc # "panic"
            /\ Len(stdout) <= 1
            /\ pc = "done" =>
                  /\ stdout = <<16>>
                  /\ memory_pointer = 1
                  /\ RamGet(ram, 0) = 0
                  /\ RamGet(ram, 1) = 16
                  /\ DOMAIN ram = {1}
                  /\ stdin_read = 0)
    /\ (content = Scenario16) ~> (content = Scenario16 /\ pc = "done")

\* The scenario has run to its normal end.
C10_Witness ==
    /\ content = Scenario16
    /\ pc = "done"
    /\ stdout = <<16>>
    /\ instruction_pointer = Len(program)


\* C11: the run is deterministic: a state of the run has no second successor
\* (no step Next allows from it leads anywhere but where the run goes), so a
\* source text, an input stream and a build determine the whole sequence of
\* states, the output stream and the final tape.
C11_Deterministic ==
    [][\A t \in {vars'} : ~ENABLED (Next /\ vars' # t)]_vars

\* A balanced program that reads input, loops and prints has run to its end
\* inside the tape.
C11_Witness ==
    /\ pc = "done"
    /\ Balanced(program)
    /\ \E i \in 1..Len(program) : program[i].kind = "JumpIfNotZero"
    /\ stdin_read > 0
    /\ stdout # <<>>
    /\ InBounds(memory_pointer)


\* The cells of two tapes agree everywhere but at address a.
SameButAt(mem1, mem2, a) ==
    \A x \in (DOMAIN mem1 \cup DOMAIN mem2) \ {a} : RamGet(mem1, x) = RamGet(mem2, x)

\* An Input instruction is about to execute.
AtInput ==
    /\ pc = "exec"
    /\ instruction_pointer < Len(program)
    /\ ExecInst.kind = "ReadInputToByte"

\* C12: an executed Input instruction consumes exactly the next byte of the
\* input stream and stores it unchanged in the current cell, leaving the memory
\* pointer and every other cell as they were; so the cells written by k Inputs
\* hold the first k bytes, and `,.` on an input starting with 65 outputs 65.
C12_InputOneByte ==
    /\ [][ (AtInput /\ stdin_read < Len(stdin) /\ InBounds(memory_pointer))
           => /\ stdin_read' = stdin_read + 1
              /\ RamGet(ram', memory_pointer) = stdin[stdin_read + 1]
              /\ SameButAt(ram, ram', memory_pointer)
              /\ memory_pointer' = memory_pointer
              /\ stdin' = stdin
              /\ pc' = "exec" ]_vars
    /\ []((content = <<",", ".">> /\ stdin # <<>> /\ stdin[1] = 65 /\ pc = "done")
            => stdout = <<65>>)

\* Two Inputs have executed: the second byte of the stream, 200, is in the
\* current cell and the first, 65, in another one.
C12_Witness ==
    /\ pc = "exec"
    /\ stdin_read = 2
    /\ stdin = <<65, 200>>
    /\ RamGet(ram, memory_pointer) = 200
    /\ \E a \in DOMAIN ram : a # memory_pointer /\ ram[a] = 65

\* C13: an Input instruction executed on an exhausted input stream is fatal:
\* the run panics there, the cell, the pointers, the streams are left as they
\* were, and nothing executes after a panic.
C13_InputEofFatal ==
    /\ [][ (AtInput /\ stdin_read >= Len(stdin))
           => /\ pc' = "panic"
              /\ fault' = "stdin_eof"
              /\ ram' = ram
              /\ instruction_pointer' = instruction_pointer
              /\ memory_pointer' = memory_pointer
              /\ stdin_read' = stdin_read
              /\ stdout' = stdout ]_vars
    /\ [][pc # "panic"]_vars

\* The run has panicked on an Input after the whole stream had been consumed.
C13_Witness ==
    /\ pc = "panic"
    /\ fault = "stdin_eof"
    /\ stdin_read = Len(stdin)
    /\ stdin_read > 0
    /\ ram # EmptyMap


\* C14: a source text without any instruction character compiles to the empty
\* program and the empty jump table, never faults, touches neither tape nor
\* streams nor pointers, and its run reaches normal termination.
C14_EmptyProgram ==
    /\ [](InstructionChars(content) = <<>> =>
            /\ program = <<>>
            /\ jump_map = EmptyMap
            /\ stack = <<>>
            /\ pc # "panic"
            /\ NothingExecuted)
    /\ (InstructionChars(content) = <<>>) ~> (InstructionChars(content) = <<>> /\ pc = "done")

\* A source of comment characters only has run to its normal end.
C14_Witness ==
    /\ content # <<>>
    /\ InstructionChars(content) = <<>>
    /\ pc = "done"
    /\ position_in_code = Len(content)


\* A bracket is about to execute and its jump is taken: a JumpIfZero on a zero
\* cell or a JumpIfNotZero on a non-zero cell, with an entry in the table.
JumpTaken ==
    /\ pc = "exec"
    /\ instruction_pointer < Len(program)
    /\ InBounds(memory_pointer)
    /\ \/ ExecInst.kind = "JumpIfZero" /\ RamGet(ram, memory_pointer) = 0
       \/ ExecInst.kind = "JumpIfNotZero" /\ RamGet(ram, memory_pointer) # 0
    /\ instruction_pointer \in DOMAIN jump_map

\* C15 as stated: a taken jump lands on the matching bracket, which is the
\* next instruction executed; any other completed instruction advances the
\* instruction pointer by one.
C15_JumpLandsOnBracket ==
    [][ (pc = "exec" /\ pc' = "exec")
        => IF JumpTaken
           THEN instruction_pointer' = jump_map[instruction_pointer]
           ELSE instruction_pointer' = instruction_pointer + 1 ]_vars

\* C15 as amended: a taken jump sets the instruction pointer to the address of
\* the matching bracket and the closing += 1 moves it on, so the next
\* instruction executed is the one after the matching bracket; any other
\* completed instruction advances the instruction pointer by one.
C15_JumpLandsAfterBracket ==
    [][ (pc = "exec" /\ pc' = "exec")
        => IF JumpTaken
           THEN instruction_pointer' = jump_map[instruction_pointer] + 1
           ELSE instruction_pointer' = instruction_pointer + 1 ]_vars

\* A loop has jumped back: execution stands right after a LoopOpen whose
\* LoopClose lies further on, with the loop counter not yet zero and the
\* loop body's effect on cell 1 already there.
C15_Witness ==
    /\ pc = "exec"
    /\ memory_pointer = 0
    /\ RamGet(ram, 0) # 0
    /\ RamGet(ram, 1) # 0
    /\ \E b \in CloseAddrs(program) :
          /\ b \in DOMAIN jump_map
          /\ instruction_pointer = jump_map[b] + 1
          /\ instruction_pointer <= b


\* The character an instruction kind was compiled from.
KindChar(k) ==
    CASE k = "IncrementPointer" -> ">"
      [] k = "DecrementPointer" -> "<"
      [] k = "IncrementByte"    -> "+"
      [] k = "DecrementByte"    -> "-"
      [] k = "PrintByteAsChar"  -> "."
      [] k = "ReadInputToByte"  -> ","
      [] k = "JumpIfZero"       -> "["
      [] k = "JumpIfNotZero"    -> "]"

\* The characters of the first n instructions of prog: count times the
\* character of a run-length instruction, once that of any other.
RECURSIVE Expand(_, _)
Expand(prog, n) ==
    IF n = 0 THEN <<>>
    ELSE Expand(prog, n - 1) \o
         (IF prog[n].kind \in RunKinds
          THEN Repeat(KindChar(prog[n].kind), prog[n].operand[1])
          ELSE <<KindChar(prog[n].kind)>>)

\* No run of one run-length-eligible character is longer than a u8 can count.
RunsFitU8(toks) ==
    \A i \in 1..(Len(toks) - (U8_MODULUS - 1)) :
        ~(toks[i] \in RunChars /\ \A j \in i..(i + U8_MODULUS - 1) : toks[j] = toks[i])

\* load_program_from_file has returned.
Loaded == pc \in {"resolve", "exec", "done"} \/ (pc = "panic" /\ fault # "streak_overflow")

\* C16: for a source whose runs are at most 255 long the load does not fault,
\* and expanding the compiled program gives back the instruction characters of
\* the source, none lost, none twice, nothing for the sentinel; two adjacent
\* run-length instructions never have the same kind.
C16_NoTokenLostOrDuplicated ==
    RunsFitU8(InstructionChars(content)) =>
        /\ ~(pc = "panic" /\ fault = "streak_overflow")
        /\ Loaded =>
              /\ Expand(program, Len(program)) = InstructionChars(content)
              /\ \A i \in 1..(Len(program) - 1) :
                    program[i].kind \in RunKinds => program[i + 1].kind # program[i].kind

\* A program has been loaded in which a run of two or more is followed at once
\* by a run of another character.
C16_Witness ==
    /\ Loaded
    /\ RunsFitU8(InstructionChars(content))
    /\ \E i \in 1..(Len(program) - 1) :
          /\ program[i].kind \in RunKinds
          /\ program[i].operand[1] >= 2
          /\ program[i + 1].kind \in RunKinds


\* The program is still being loaded or resolved.
BeforeExecution == pc \in {"load", "compile", "run", "resolve"}

\* C17: nothing executes until the resolver has gone over the whole program
\* (execution is entered only from the resolver, with its pointer at the end of
\* the program), and no step of the execution loop changes the program or the
\* jump table.
C17_ResolvedBeforeRunImmutableAfter ==
    [][ /\ BeforeExecution => NothingExecuted /\ NothingExecuted'
        /\ (pc' = "exec" /\ pc # "exec") =>
              pc = "resolve" /\ local_instruction_pointer = Len(program)
        /\ pc = "exec" => program' = program /\ jump_map' = jump_map
      ]_vars

\* Execution is under way on a program with a loop: instructions have run,
\* one of them printed, and the jump table is not empty.
C17_Witness ==
    /\ pc = "exec"
    /\ instruction_pointer > 0
    /\ jump_map # EmptyMap
    /\ stdout # <<>>


\* C18: once resolution has passed, no jump table lookup of the execution loop
\* misses: a bracket that takes its jump has an entry, its target is an address
\* of the program, the instruction pointer stays within 0..program length, and
\* the run never ends on the failed lookup.
C18_LookupsSucceed ==
    Resolved =>
        /\ fault # "jump_miss"
        /\ instruction_pointer \in 0..Len(program)
        /\ (pc = "exec" /\ instruction_pointer < Len(program)
               /\ ExecInst.kind \in {"JumpIfZero", "JumpIfNotZero"}) =>
              /\ instruction_pointer \in DOMAIN jump_map
              /\ jump_map[instruction_pointer] \in 0..(Len(program) - 1)


\* An instruction of the given kinds is about to execute.
AtKind(ks) ==
    /\ pc = "exec"
    /\ instruction_pointer < Len(program)
    /\ ExecInst.kind \in ks

\* C19: an instruction changes only its own part of the execution state: the
\* pointer moves leave the tape as it is; the cell operations and Input leave
\* the memory pointer and every cell but cell[memory_pointer]; Output and the
\* two brackets leave tape and memory pointer; only Output adds to the output,
\* which it only extends, and only Input consumes input.
C19_FrameEffects ==
    [][ /\ AtKind({"IncrementPointer", "DecrementPointer"}) => ram' = ram
        /\ AtKind({"IncrementByte", "DecrementByte", "ReadInputToByte"}) =>
              /\ memory_pointer' = memory_pointer
              /\ SameButAt(ram, ram', memory_pointer)
        /\ AtKind({"PrintByteAsChar", "JumpIfZero", "JumpIfNotZero"}) =>
              /\ ram' = ram
              /\ memory_pointer' = memory_pointer
        /\ stdout' # stdout =>
              /\ AtKind({"PrintByteAsChar"})
              /\ Len(stdout') > Len(stdout)
              /\ SubSeq(stdout', 1, Len(stdout)) = stdout
        /\ stdin_read' # stdin_read => AtKind({"ReadInputToByte"})
        /\ stdin' = stdin
      ]_vars

\* A cell operation has acted away from cell 0 while another cell holds a
\* value: two cells of the tape are non-zero and the pointer is off 0.
C19_Witness ==
    /\ pc = "exec"
    /\ memory_pointer # 0
    /\ RamGet(ram, memory_pointer) # 0
    /\ \E a \in DOMAIN ram : a # memory_pointer


\* The match of the compile loop is at its arm `_ => continue`: the current
\* symbol is neither an instruction character nor the sentinel.
FallbackArmReached ==
    /\ pc = "compile"
    /\ c \notin RunChars \cup SingleChars \cup {EOF_CHAR}

\* The compile loop is still going.
Compiling == pc \in {"load", "compile", "run"}

\* C20: the compile loop ends for every source: the arm `_ => continue` is
\* never reached; an iteration of the outer loop (from one evaluation of its
\* condition to the next) calls the lexer at least once and appends exactly one
\* instruction, as its last step; and the loop is always left in the end.
C20_CompileLoopTerminates ==
    /\ [](~FallbackArmReached)
    /\ [][ /\ (pc = "compile" /\ pc' \in {"compile", "run"}) => Len(tokens') > Len(tokens)
           /\ (pc = "compile" /\ pc' = "compile") => Len(program') = Len(program) + 1
           /\ (Compiling /\ pc' = "run") => program' = program
           /\ (pc = "run" /\ pc' = "compile") => Len(program') = Len(program) + 1
           /\ Compiling => SubSeq(program', 1, Len(program)) = program
         ]_vars
    /\ Compiling ~> ~Compiling

\* The loop has ended on a source that holds a character that is not an
\* instruction, after emitting a run-length and a single instruction.
C20_Witness ==
    /\ pc = "resolve"
    /\ \E i \in 1..Len(content) : ~is_valid_brainfuck_instruction(content[i])
    /\ \E i, j \in 1..Len(program) :
          program[i].kind \in RunKinds /\ program[j].kind \notin RunKinds

====
